---------------------------- MODULE Spec2Model ----------------------------
(***************************************************************************)
(* Model of filter.js (thomasjakkel/rose): the pregnancy data filter.      *)
(* src/filter.js holds the two variants of the script one after the other: *)
(* the strict variant (lines 1-432, a client is skipped as a whole) and    *)
(* the salvage variant (lines 434-917, invalid pregnancies are removed).   *)
(*                                                                         *)
(* JavaScript values are modelled as tagged records.  Objects and arrays   *)
(* live in a heap and are reached through references, so that aliasing     *)
(* and in-place assignment are visible.  A string is the sequence of its   *)
(* characters.  A JSON document (the content of a file) is a tree: the     *)
(* same tagged records with objects and arrays inline.                     *)
(***************************************************************************)
EXTENDS Integers, Sequences, FiniteSets, TLC

VARIABLES
  variant,      \* "strict" or "salvage": which of the two scripts runs
  pass,         \* 1 for the first run, 2.. for a run on the previous output
  pc,           \* position of the run: see the actions
  inputFile,    \* the JSON document at <input.json>
  heap,         \* the objects and arrays of the process
  inputData,    \* main: inputData = JSON.parse(rawData)
  pos,          \* processData: number of clients the for-of loop has taken
  outputData,   \* processData: const outputData = []
  results,      \* processData: const results = {...}
  thrownIn,     \* where an uncaught TypeError was raised ("none" if none)
  outputFile,   \* the JSON document written to <output.json>, or NoFile
  reportFile    \* the results written to results.txt, or NoFile

vars == <<variant, pass, pc, inputFile, heap, inputData, pos, outputData,
          results, thrownIn, outputFile, reportFile>>

----------------------------------------------------------------------------
(* Bounds of the model *)

MaxClients == 2
MaxPregnancies == 2
MaxPasses == 2

----------------------------------------------------------------------------
(* JavaScript values *)

Null == [t |-> "null"]
Undefined == [t |-> "undefined"]
Bool(b) == [t |-> "boolean", v |-> b]
Num(n) == [t |-> "number", v |-> n]
Str(s) == [t |-> "string", v |-> s]
Ref(a) == [t |-> "ref", v |-> a]
Obj(pairs) == [t |-> "object", v |-> pairs]
Arr(elems) == [t |-> "array", v |-> elems]
Prop(key, val) == [k |-> key, v |-> val]

\* A call's completion: the heap it leaves and the value it returns, or
\* that it raised a TypeError
Done(h, r) == [h |-> h, r |-> r, threw |-> FALSE]
Throw(h) == [h |-> h, r |-> Undefined, threw |-> TRUE]

\* A new object or array
Alloc(h, cell) == Done(Append(h, cell), Ref(Len(h) + 1))

\* ToBoolean
Truthy(x) ==
  CASE x.t = "null" -> FALSE
    [] x.t = "undefined" -> FALSE
    [] x.t = "boolean" -> x.v
    [] x.t = "number" -> x.v # 0
    [] x.t = "string" -> Len(x.v) > 0
    [] OTHER -> TRUE

Nullish(x) == x.t \in {"null", "undefined"}

\* typeof x === 'object' (null included, as in JavaScript)
TypeofObject(x) == x.t \in {"ref", "null"}

\* Array.isArray(x)
IsArray(h, x) == x.t = "ref" /\ h[x.v].t = "array"

k_length == <<"l", "e", "n", "g", "t", "h">>

\* key in obj, for an object or array obj
HasProperty(h, obj, key) ==
  LET c == h[obj.v]
  IN  IF c.t = "array" THEN key = k_length
      ELSE \E i \in 1..Len(c.v) : c.v[i].k = key

\* x[key] for a string key and x not null or undefined
GetProperty(h, x, key) ==
  CASE x.t = "ref" ->
         LET c == h[x.v]
         IN  IF c.t = "array"
               THEN IF key = k_length THEN Num(Len(c.v)) ELSE Undefined
               ELSE IF \E i \in 1..Len(c.v) : c.v[i].k = key
                      THEN c.v[CHOOSE i \in 1..Len(c.v) : c.v[i].k = key].v
                      ELSE Undefined
    [] x.t = "string" -> IF key = k_length THEN Num(Len(x.v)) ELSE Undefined
    [] OTHER -> Undefined

\* x[i] for an index i >= 0 (input objects have no integer-like keys)
GetIndex(h, x, i) ==
  CASE x.t = "ref" ->
         LET c == h[x.v]
         IN  IF c.t = "array" /\ i < Len(c.v) THEN c.v[i + 1] ELSE Undefined
    [] x.t = "string" -> IF i < Len(x.v) THEN Str(<<x.v[i + 1]>>) ELSE Undefined
    [] OTHER -> Undefined

\* obj[key] = val for an object obj: an own key keeps its place, a new one
\* goes last
SetProperty(h, obj, key, val) ==
  LET c == h[obj.v]
      at == {i \in 1..Len(c.v) : c.v[i].k = key}
  IN  IF at = {}
        THEN [h EXCEPT ![obj.v] = Obj(Append(c.v, Prop(key, val)))]
        ELSE [h EXCEPT ![obj.v] =
                Obj([i \in 1..Len(c.v) |->
                       IF i \in at THEN Prop(key, val) ELSE c.v[i]])]

\* The elements a for-of loop or Array.prototype.map visits
Elements(h, x) ==
  CASE x.t = "ref" -> h[x.v].v
    [] x.t = "string" -> [i \in 1..Len(x.v) |-> Str(<<x.v[i]>>)]
    [] OTHER -> <<>>

\* Whether for (... of x) can iterate x: arrays and strings are iterable
Iterable(h, x) == IsArray(h, x) \/ x.t = "string"

----------------------------------------------------------------------------
(* JSON.parse and JSON.stringify, between documents and heap values *)

\* The documents directly inside an array or object document
Parts(doc) ==
  IF doc.t = "array" THEN doc.v
  ELSE IF doc.t = "object" THEN [i \in 1..Len(doc.v) |-> doc.v[i].v]
  ELSE <<>>

\* The cells and values of parsed documents, then those of one more
ParsedNext(prev, parsed) ==
  [cells |-> prev.cells \o parsed.cells, rs |-> Append(prev.rs, parsed.r)]

\* The array or object of a document whose parts have the values rs
ParsedCell(doc, rs) ==
  IF doc.t = "array" THEN Arr(rs)
  ELSE Obj([i \in 1..Len(rs) |-> Prop(doc.v[i].k, rs[i])])

\* The cells of the parts and then the cell of the document itself, at
\* address base + the number of cells + 1
ParsedWhole(base, doc, parts) ==
  [cells |-> Append(parts.cells, ParsedCell(doc, parts.rs)),
   r |-> Ref(base + Len(parts.cells) + 1)]

\* The cells of a document allocated from address base + 1 on, each object
\* and array after the ones inside it, and the value of the document.
\* JSONparseParts: the same for the first n parts of a document, one after
\* the other.
RECURSIVE JSONparseAt(_, _)
RECURSIVE JSONparseParts(_, _, _)
JSONparseNext(base, prev, part) ==
  ParsedNext(prev, JSONparseAt(base + Len(prev.cells), part))

JSONparseParts(base, parts, n) ==
  IF n = 0 THEN [cells |-> <<>>, rs |-> <<>>]
  ELSE JSONparseNext(base, JSONparseParts(base, parts, n - 1), parts[n])

JSONparseAt(base, doc) ==
  IF doc.t \in {"array", "object"}
    THEN ParsedWhole(base, doc,
                     JSONparseParts(base, Parts(doc), Len(Parts(doc))))
    ELSE [cells |-> <<>>, r |-> doc]

\* The heap h and then the cells of a parsed document
Parsed(h, p) == Done(h \o p.cells, p.r)

\* JSON.parse: the value of a document, its objects and arrays new in heap h
JSONparse(h, doc) == Parsed(h, JSONparseAt(Len(h), doc))

\* JSON.stringify drops a property whose value is undefined and writes an
\* undefined array element as null.
RECURSIVE JSONstringify(_, _)
JSONstringify(h, x) ==
  IF x.t = "ref" THEN
    LET c == h[x.v]
    IN  IF c.t = "array"
          THEN Arr([i \in 1..Len(c.v) |->
                      IF c.v[i].t = "undefined" THEN Null
                      ELSE JSONstringify(h, c.v[i])])
          ELSE LET kept == SelectSeq(c.v, LAMBDA p : p.v.t # "undefined")
               IN  Obj([i \in 1..Len(kept) |->
                          Prop(kept[i].k, JSONstringify(h, kept[i].v))])
  ELSE x

----------------------------------------------------------------------------
(* CONFIG: the keys, as character sequences *)

k_id == <<"i", "d">>
k_pregnancies == <<"p", "r", "e", "g", "n", "a", "n", "c", "i", "e", "s">>
k_id_client == <<"i", "d", "_", "c", "l", "i", "e", "n", "t">>
k_data_encr == <<"d", "a", "t", "a", "_", "e", "n", "c", "r">>
k_expected_birth_date == <<"e", "x", "p", "e", "c", "t", "e", "d", "_", "b", "i", "r", "t", "h", "_", "d", "a", "t", "e">>
k_birth == <<"b", "i", "r", "t", "h">>
k_cares_after == <<"c", "a", "r", "e", "s", "_", "a", "f", "t", "e", "r">>
k_cares_after_phone == <<"c", "a", "r", "e", "s", "_", "a", "f", "t", "e", "r", "_", "p", "h", "o", "n", "e">>
k_id_pregnancy == <<"i", "d", "_", "p", "r", "e", "g", "n", "a", "n", "c", "y">>
k_children == <<"c", "h", "i", "l", "d", "r", "e", "n">>
k_id_birth == <<"i", "d", "_", "b", "i", "r", "t", "h">>
k_date_birth == <<"d", "a", "t", "e", "_", "b", "i", "r", "t", "h">>
k_created_at == <<"c", "r", "e", "a", "t", "e", "d", "_", "a", "t">>
k_updated_at == <<"u", "p", "d", "a", "t", "e", "d", "_", "a", "t">>
k_deleted_at == <<"d", "e", "l", "e", "t", "e", "d", "_", "a", "t">>
k_created_by == <<"c", "r", "e", "a", "t", "e", "d", "_", "b", "y">>
k_updated_by == <<"u", "p", "d", "a", "t", "e", "d", "_", "b", "y">>
k_in_dashboard == <<"i", "n", "_", "d", "a", "s", "h", "b", "o", "a", "r", "d">>
k_pregnancy_id == <<"p", "r", "e", "g", "n", "a", "n", "c", "y", "_", "i", "d">>
k_client_id == <<"c", "l", "i", "e", "n", "t", "_", "i", "d">>
k_date_start == <<"d", "a", "t", "e", "_", "s", "t", "a", "r", "t">>
k_date_end == <<"d", "a", "t", "e", "_", "e", "n", "d">>
k_id_user == <<"i", "d", "_", "u", "s", "e", "r">>
k_is_breast_feeding == <<"i", "s", "_", "b", "r", "e", "a", "s", "t", "_", "f", "e", "e", "d", "i", "n", "g">>
k_fields_type == <<"f", "i", "e", "l", "d", "s", "-", "t", "y", "p", "e">>
k_egt == <<"e", "g", "t">>
k_grav == <<"g", "r", "a", "v">>
k_para == <<"p", "a", "r", "a">>
k_stillwunsch == <<"s", "t", "i", "l", "l", "w", "u", "n", "s", "c", "h">>
k_geburts_modus == <<"g", "e", "b", "u", "r", "t", "s", "-", "m", "o", "d", "u", "s">>
k_blutverlust == <<"b", "l", "u", "t", "v", "e", "r", "l", "u", "s", "t">>
k_mother_entlassungdatum == <<"m", "o", "t", "h", "e", "r", "-", "e", "n", "t", "l", "a", "s", "s", "u", "n", "g", "d", "a", "t", "u", "m">>
k_birth_date == <<"b", "i", "r", "t", "h", "_", "d", "a", "t", "e">>
k_birth_time == <<"b", "i", "r", "t", "h", "_", "t", "i", "m", "e">>
k_stillt == <<"s", "t", "i", "l", "l", "t">>
k_child_tab == <<"c", "h", "i", "l", "d", "-", "t", "a", "b">>
k_ibds_left == <<"i", "b", "d", "s", "-", "l", "e", "f", "t">>
k_ibds_right == <<"i", "b", "d", "s", "-", "r", "i", "g", "h", "t">>
k_care_length == <<"c", "a", "r", "e", "_", "l", "e", "n", "g", "t", "h">>
k_is_first_care == <<"i", "s", "_", "f", "i", "r", "s", "t", "_", "c", "a", "r", "e">>
k_laktierend_left == <<"l", "a", "k", "t", "i", "e", "r", "e", "n", "d", "-", "l", "e", "f", "t">>
k_laktierend_right == <<"l", "a", "k", "t", "i", "e", "r", "e", "n", "d", "-", "r", "i", "g", "h", "t">>
k_regelrechtes_wochenbett == <<"r", "e", "g", "e", "l", "r", "e", "c", "h", "t", "e", "s", "-", "w", "o", "c", "h", "e", "n", "b", "e", "t", "t">>
k_kind_ID_nahrung == <<"k", "i", "n", "d", "-", "{", "i", "d", "}", "-", "n", "a", "h", "r", "u", "n", "g">>
k_kind_ID_physiologisches_neugeborenes == <<"k", "i", "n", "d", "-", "{", "i", "d", "}", "-", "p", "h", "y", "s", "i", "o", "l", "o", "g", "i", "s", "c", "h", "e", "s", "-", "n", "e", "u", "g", "e", "b", "o", "r", "e", "n", "e", "s">>

\* Required fields with 'expected_birth_date' required of a salvage
\* pregnancy: breaks C10
CONFIG_requiredWithDate(var) ==
  [client |-> <<k_pregnancies>>,
   pregnancy |-> IF var = "strict" THEN <<k_birth>>
                 ELSE <<k_birth, k_cares_after, k_cares_after_phone,
                        k_expected_birth_date>>,
   birth |-> <<k_children>>]

\* Required fields of the strict script (lines 37-41) and of the salvage
\* script (lines 471-475)
CONFIG_required(var) ==
  [client |-> <<k_pregnancies>>,
   pregnancy |-> IF var = "strict" THEN <<k_birth>>
                 ELSE <<k_birth, k_cares_after, k_cares_after_phone>>,
   birth |-> <<k_children>>]

\* A whitelist whose birth has no 'children': breaks C8
CONFIG_whitelistWithoutChildren ==
  [client |-> <<k_id, k_pregnancies>>,
   pregnancy |-> <<k_id, k_id_client, k_data_encr, k_expected_birth_date,
                   k_birth, k_cares_after, k_cares_after_phone>>,
   birth |-> <<k_id, k_id_pregnancy, k_data_encr>>,
   child |-> <<k_id, k_id_birth, k_date_birth, k_data_encr>>,
   careAfter |-> <<k_id, k_id_pregnancy, k_data_encr, k_date_start, k_date_end>>,
   careAfterPhone |-> <<k_id, k_id_user, k_id_pregnancy,
                        k_date_start, k_date_end, k_is_breast_feeding>>]

CONFIG_whitelist ==
  [client |-> <<k_id, k_pregnancies>>,
   pregnancy |-> <<k_id, k_id_client, k_data_encr, k_expected_birth_date,
                   k_birth, k_cares_after, k_cares_after_phone>>,
   birth |-> <<k_id, k_id_pregnancy, k_data_encr, k_children>>,
   child |-> <<k_id, k_id_birth, k_date_birth, k_data_encr,
               k_created_at, k_updated_at, k_deleted_at,
               k_created_by, k_updated_by, k_in_dashboard,
               k_pregnancy_id, k_client_id>>,
   careAfter |-> <<k_id, k_id_pregnancy, k_data_encr, k_date_start, k_date_end>>,
   careAfterPhone |-> <<k_id, k_id_user, k_id_pregnancy,
                        k_date_start, k_date_end, k_is_breast_feeding>>]

CONFIG_dataEncr ==
  [pregnancy |-> <<k_fields_type, k_egt, k_grav, k_para, k_stillwunsch>>,
   birth |-> <<k_fields_type, k_geburts_modus, k_blutverlust,
               k_mother_entlassungdatum>>,
   child |-> <<k_fields_type, k_birth_date, k_birth_time>>,
   careAfter |-> <<k_stillt, k_child_tab, k_ibds_left, k_ibds_right,
                   k_care_length, k_is_first_care, k_laktierend_left,
                   k_laktierend_right, k_regelrechtes_wochenbett>>,
   careAfterDynamicPatterns |-> <<k_kind_ID_nahrung,
                                  k_kind_ID_physiologisches_neugeborenes>>]

----------------------------------------------------------------------------
(* Helper functions *)

Includes(seq, x) == \E i \in 1..Len(seq) : seq[i] = x

\* A pickProperties that copies every property of obj, listed or not:
\* breaks C3
pickPropertiesAll(h, obj, keys) ==
  IF ~Truthy(obj) \/ ~TypeofObject(obj) THEN Done(h, obj)
  ELSE Alloc(h, Obj(SelectSeq(h[obj.v].v, LAMBDA p : h[obj.v].t = "object")))

\* function pickProperties(obj, keys)
pickProperties(h, obj, keys) ==
  IF ~Truthy(obj) \/ ~TypeofObject(obj) THEN Done(h, obj)
  ELSE LET present == SelectSeq(keys, LAMBDA key : HasProperty(h, obj, key))
       IN  Alloc(h, Obj([i \in 1..Len(present) |->
                           Prop(present[i], GetProperty(h, obj, present[i]))]))

\* String.prototype.replace(search, replacement) with a string search:
\* the first occurrence only
StringReplace(s, search, replacement) ==
  LET n == Len(search)
      at == {i \in 1..(Len(s) - n + 1) : SubSeq(s, i, i + n - 1) = search}
  IN  IF at = {} THEN s
      ELSE LET i == CHOOSE j \in at : \A j2 \in at : j <= j2
           IN  SubSeq(s, 1, i - 1) \o replacement \o SubSeq(s, i + n, Len(s))

Digits == {"0", "1", "2", "3", "4", "5", "6", "7", "8", "9"}

\* new RegExp(source), for the sources the script builds: ^ and $ anchors,
\* \d+ and literal characters.  The result is the list of the regular
\* expression's terms.
RegExp(source) ==
  LET digitsAt(i) == /\ i >= 1
                     /\ i + 2 <= Len(source)
                     /\ SubSeq(source, i, i + 2) = <<"\\", "d", "+">>
      termAt(i) ==
        IF digitsAt(i) THEN [term |-> "digits"]
        ELSE IF digitsAt(i - 1) \/ digitsAt(i - 2) THEN [term |-> "none"]
        ELSE IF source[i] = "^" THEN [term |-> "start"]
        ELSE IF source[i] = "$" THEN [term |-> "end"]
        ELSE [term |-> "char", c |-> source[i]]
  IN  SelectSeq([i \in 1..Len(source) |-> termAt(i)],
                LAMBDA x : x.term # "none")

\* The spans <<i, j>> of s that one term matches: the characters i..j-1
TermSpans(x, s) ==
  CASE x.term = "start" -> {<<1, 1>>}
    [] x.term = "end" -> {<<Len(s) + 1, Len(s) + 1>>}
    [] x.term = "char" -> {<<i, i + 1>> : i \in {i \in 1..Len(s) : s[i] = x.c}}
    [] x.term = "digits" ->
         {span \in (1..Len(s)) \X (2..(Len(s) + 1)) :
            /\ span[1] < span[2]
            /\ \A d \in span[1]..(span[2] - 1) : s[d] \in Digits}

\* The spans of s that the terms a..b match one after the other
RECURSIVE Spans(_, _, _, _)
Spans(terms, a, b, s) ==
  IF a = b THEN TermSpans(terms[a], s)
  ELSE LET m == (a + b) \div 2
           left == Spans(terms, a, m, s)
           right == Spans(terms, m + 1, b, s)
       IN  UNION {{<<p[1], q[2]>> : q \in {q \in right : q[1] = p[2]}} :
                    p \in left}

\* RegExp.prototype.test(s): a match that starts anywhere in s
RegExpTest(terms, s) ==
  Len(terms) = 0 \/ Spans(terms, 1, Len(terms), s) # {}

\* A matchesDynamicPattern whose regular expression has no ^ and $ anchors:
\* breaks C4
matchesDynamicPatternUnanchored(key, pattern) ==
  RegExpTest(RegExp(StringReplace(pattern, <<"{", "i", "d", "}">>,
                                  <<"\\", "d", "+">>)),
             key)

\* function matchesDynamicPattern(key, pattern)
matchesDynamicPattern(key, pattern) ==
  LET regexPattern == StringReplace(pattern, <<"{", "i", "d", "}">>,
                                    <<"\\", "d", "+">>)
      regex == RegExp(<<"^">> \o regexPattern \o <<"$">>)
  IN  RegExpTest(regex, key)

DigitChars == <<"0", "1", "2", "3", "4", "5", "6", "7", "8", "9">>

\* String(n) for an integer n >= 0
RECURSIVE NumberToString(_)
NumberToString(n) ==
  IF n < 10 THEN <<DigitChars[n + 1]>>
  ELSE Append(NumberToString(n \div 10), DigitChars[(n % 10) + 1])

\* The own enumerable properties of an object or array x, in the order of
\* Object.keys(x); an array's keys are its indices
OwnProperties(h, x) ==
  LET c == h[x.v]
  IN  IF c.t = "array"
        THEN [i \in 1..Len(c.v) |-> Prop(NumberToString(i - 1), c.v[i])]
        ELSE c.v

\* function filterDataEncr(dataEncr, allowedKeys, dynamicPatterns = null);
\* dynamicPatterns is <<>> where the caller passes none
filterDataEncr(h, dataEncr, allowedKeys, dynamicPatterns) ==
  IF ~Truthy(dataEncr) \/ ~TypeofObject(dataEncr) THEN Done(h, dataEncr)
  ELSE LET kept == SelectSeq(OwnProperties(h, dataEncr), LAMBDA p :
                     \/ Includes(allowedKeys, p.k)
                     \/ \E i \in 1..Len(dynamicPatterns) :
                           matchesDynamicPattern(p.k, dynamicPatterns[i]))
       IN  Alloc(h, Obj(kept))

\* function isValidValue(value, checkNonEmptyArray = false)
isValidValue(h, value, checkNonEmptyArray) ==
  IF value.t = "null" \/ value.t = "undefined" THEN FALSE
  ELSE IF checkNonEmptyArray /\ IsArray(h, value) /\ Len(h[value.v].v) = 0
    THEN FALSE
  ELSE TRUE

----------------------------------------------------------------------------
(* Validation functions *)

\* entity?.[field]
OptionalGet(h, entity, field) ==
  IF Nullish(entity) THEN Undefined ELSE GetProperty(h, entity, field)

\* A validateEntity that returns the last invalid field: breaks C13
validateEntityLast(h, entity, requiredFields, checkArrayNonEmpty) ==
  LET bad == {i \in 1..Len(requiredFields) :
                ~isValidValue(h, OptionalGet(h, entity, requiredFields[i]),
                              checkArrayNonEmpty)}
  IN  IF bad = {} THEN [valid |-> TRUE, missingField |-> Null]
      ELSE [valid |-> FALSE,
            missingField |->
              Str(requiredFields[CHOOSE i \in bad : \A j \in bad : i >= j])]

\* function validateEntity(entity, requiredFields, checkArrayNonEmpty = false)
validateEntity(h, entity, requiredFields, checkArrayNonEmpty) ==
  LET bad == {i \in 1..Len(requiredFields) :
                ~isValidValue(h, OptionalGet(h, entity, requiredFields[i]),
                              checkArrayNonEmpty)}
  IN  IF bad = {} THEN [valid |-> TRUE, missingField |-> Null]
      ELSE [valid |-> FALSE,
            missingField |->
              Str(requiredFields[CHOOSE i \in bad : \A j \in bad : i <= j])]

\* What validateClient and validatePregnancy return: { valid, reason }.  The
\* reason is the template literal: its text and the values it interpolates.
\* threw: the call raised a TypeError instead of returning.
Valid == [valid |-> TRUE, reason |-> <<>>, threw |-> FALSE]
Invalid(reason) == [valid |-> FALSE, reason |-> reason, threw |-> FALSE]
ValidationThrew == [valid |-> FALSE, reason |-> <<>>, threw |-> TRUE]

\* The number of turns of for (let i = 0; i < length; i++): i < undefined is
\* false (no modelled input has an object with a length property)
LoopBound(length) == IF length.t = "number" THEN length.v ELSE 0

\* function validateClient(client) of the strict script, lines 186-208: the
\* body of the loop for pregnancy i.  Reading pregnancy.id of a null or
\* undefined pregnancy raises a TypeError.
validatePregnancyAt(h, pregnancies, i) ==
  LET pregnancy == GetIndex(h, pregnancies, i)
      pregnancyValidation ==
        validateEntity(h, pregnancy, CONFIG_required("strict").pregnancy, FALSE)
  IN  IF ~pregnancyValidation.valid THEN
        IF Nullish(pregnancy) THEN ValidationThrew
        ELSE Invalid(<<"Pregnancy[", i, "] (id: ",
                       GetProperty(h, pregnancy, k_id),
                       "): Missing required field 'pregnancy.",
                       pregnancyValidation.missingField,
                       "' (defined in CONFIG.required.pregnancy)">>)
      ELSE LET birth == GetProperty(h, pregnancy, k_birth)
               birthValidation ==
                 validateEntity(h, birth, CONFIG_required("strict").birth, TRUE)
           IN  IF Truthy(birth) /\ ~birthValidation.valid THEN
                 Invalid(<<"Pregnancy[", i, "] (id: ",
                           GetProperty(h, pregnancy, k_id),
                           "): Missing required field 'birth.",
                           birthValidation.missingField,
                           "' (defined in CONFIG.required.birth)">>)
               ELSE Valid

\* function validateClient(client) of the strict script
validateClientStrict(h, client) ==
  LET clientValidation ==
        validateEntity(h, client, CONFIG_required("strict").client, TRUE)
  IN  IF ~clientValidation.valid THEN
        Invalid(<<"Missing required field 'client.",
                      clientValidation.missingField,
                      "' (defined in CONFIG.required.client)">>)
      ELSE LET pregnancies == GetProperty(h, client, k_pregnancies)
               n == LoopBound(GetProperty(h, pregnancies, k_length))
               stop == {i \in 0..(n - 1) :
                          LET r == validatePregnancyAt(h, pregnancies, i)
                          IN  r.threw \/ ~r.valid}
           IN  IF stop = {} THEN Valid
               ELSE validatePregnancyAt(h, pregnancies,
                      CHOOSE i \in stop : \A j \in stop : i <= j)

\* function validatePregnancy(pregnancy) of the salvage script
validatePregnancy(h, pregnancy) ==
  LET pregnancyValidation ==
        validateEntity(h, pregnancy, CONFIG_required("salvage").pregnancy, TRUE)
  IN  IF ~pregnancyValidation.valid THEN
        Invalid(<<"Missing required field 'pregnancy.",
                      pregnancyValidation.missingField,
                      "' (defined in CONFIG.required.pregnancy)">>)
      ELSE LET birth == GetProperty(h, pregnancy, k_birth)
               birthValidation ==
                 validateEntity(h, birth, CONFIG_required("salvage").birth, TRUE)
           IN  IF Truthy(birth) /\ ~birthValidation.valid THEN
                 Invalid(<<"Missing required field 'birth.",
                               birthValidation.missingField,
                               "' (defined in CONFIG.required.birth)">>)
               ELSE Valid

\* function validateClient(client) of the salvage script
validateClientSalvage(h, client) ==
  LET clientValidation ==
        validateEntity(h, client, CONFIG_required("salvage").client, TRUE)
  IN  IF ~clientValidation.valid THEN
        Invalid(<<"Missing required field 'client.",
                      clientValidation.missingField,
                      "' (defined in CONFIG.required.client)">>)
      ELSE Valid

----------------------------------------------------------------------------
(* Filter functions.  Each returns a completion: the heap it leaves and the *)
(* filtered value, or that the script raised a TypeError.  A step of a      *)
(* function body takes the completion c of the steps before it.             *)

\* obj[key] = <the value of c>
Assign(c, obj, key) ==
  IF c.threw THEN c ELSE Done(SetProperty(c.h, obj, key, c.r), obj)

\* The new array of the values of c
NewArray(c) == IF c.threw THEN c ELSE Alloc(c.h, Arr(c.r))

\* The values xs and then the value of c
Push(xs, c) == IF c.threw THEN c ELSE Done(c.h, Append(xs, c.r))

\* The call f(x) of the filter function named f, on heap h
RECURSIVE Call(_, _, _)

\* The call of f on x on the heap the calls before it, prev, left
MapNext(f, prev, x) ==
  IF prev.threw THEN prev ELSE Push(prev.r, Call(f, prev.h, x))

\* The calls of f on elems in order, each on the heap the one before left;
\* a call that throws ends them
RECURSIVE MapElements(_, _, _)
MapElements(f, h, elems) ==
  IF Len(elems) = 0 THEN Done(h, <<>>)
  ELSE MapNext(f, MapElements(f, h, SubSeq(elems, 1, Len(elems) - 1)),
               elems[Len(elems)])

\* array.map(f): a new array of the results
ArrayMap(h, array, f) == NewArray(MapElements(f, h, Elements(h, array)))

\* if (filtered.data_encr) filtered.data_encr = filterDataEncr(...), for
\* filtered the value of c; reading a property of null or undefined throws
AssignDataEncr(c, allowedKeys, dynamicPatterns) ==
  IF c.threw THEN c
  ELSE IF Nullish(c.r) THEN Throw(c.h)
  ELSE IF Truthy(GetProperty(c.h, c.r, k_data_encr))
    THEN Assign(filterDataEncr(c.h, GetProperty(c.h, c.r, k_data_encr),
                               allowedKeys, dynamicPatterns),
                c.r, k_data_encr)
    ELSE c

\* if (filtered[key] && Array.isArray(filtered[key]))
\*   filtered[key] = filtered[key].map(f), for filtered the value of c
AssignMapped(c, key, f) ==
  IF c.threw THEN c
  ELSE IF Nullish(c.r) THEN Throw(c.h)
  ELSE IF /\ Truthy(GetProperty(c.h, c.r, key))
          /\ IsArray(c.h, GetProperty(c.h, c.r, key))
    THEN Assign(ArrayMap(c.h, GetProperty(c.h, c.r, key), f), c.r, key)
    ELSE c

\* function filterCareAfterPhone(careAfterPhone)
filterCareAfterPhone(h, careAfterPhone) ==
  pickProperties(h, careAfterPhone, CONFIG_whitelist.careAfterPhone)

\* function filterCareAfter(careAfter)
filterCareAfter(h, careAfter) ==
  AssignDataEncr(pickProperties(h, careAfter, CONFIG_whitelist.careAfter),
                 CONFIG_dataEncr.careAfter,
                 CONFIG_dataEncr.careAfterDynamicPatterns)

\* function filterChild(child)
filterChild(h, child) ==
  AssignDataEncr(pickProperties(h, child, CONFIG_whitelist.child),
                 CONFIG_dataEncr.child, <<>>)

\* function filterBirth(birth)
filterBirth(h, birth) ==
  IF ~Truthy(birth) THEN Done(h, Null)
  ELSE AssignMapped(
         AssignDataEncr(pickProperties(h, birth, CONFIG_whitelist.birth),
                        CONFIG_dataEncr.birth, <<>>),
         k_children, "filterChild")

\* if (filtered.birth) filtered.birth = filterBirth(filtered.birth), for
\* filtered the value of c
AssignBirth(c) ==
  IF c.threw THEN c
  ELSE IF Nullish(c.r) THEN Throw(c.h)
  ELSE IF Truthy(GetProperty(c.h, c.r, k_birth))
    THEN Assign(filterBirth(c.h, GetProperty(c.h, c.r, k_birth)), c.r, k_birth)
    ELSE c

\* function filterPregnancy(pregnancy)
filterPregnancy(h, pregnancy) ==
  AssignMapped(
    AssignMapped(
      AssignBirth(
        AssignDataEncr(pickProperties(h, pregnancy, CONFIG_whitelist.pregnancy),
                       CONFIG_dataEncr.pregnancy, <<>>)),
      k_cares_after, "filterCareAfter"),
    k_cares_after_phone, "filterCareAfterPhone")

\* function filterClient(client)
filterClient(h, client) ==
  AssignMapped(pickProperties(h, client, CONFIG_whitelist.client),
               k_pregnancies, "filterPregnancy")

Call(f, h, x) ==
  CASE f = "filterChild" -> filterChild(h, x)
    [] f = "filterCareAfter" -> filterCareAfter(h, x)
    [] f = "filterCareAfterPhone" -> filterCareAfterPhone(h, x)
    [] f = "filterPregnancy" -> filterPregnancy(h, x)

----------------------------------------------------------------------------
(* Main processing *)

\* const results = {...} of the strict script (lines 300-305) and of the
\* salvage script (lines 737-744)
NewResults(var) ==
  IF var = "strict"
    THEN [totalClients |-> 0, successCount |-> 0, skippedCount |-> 0,
          skippedClients |-> <<>>]
    ELSE [totalClients |-> 0, successCount |-> 0, skippedClientsCount |-> 0,
          skippedClients |-> <<>>, skippedPregnanciesCount |-> 0,
          skippedPregnancies |-> <<>>]

\* What one turn of processData's loop leaves: the heap, outputData, results
\* and where a TypeError was raised ("none" if the turn completed)
Turn(h, out, res, thrown) ==
  [h |-> h, outputData |-> out, results |-> res, thrownIn |-> thrown]

\* A push that forgets results.successCount++: breaks C1
PushFilteredUncounted(out, res, filteredClient) ==
  IF filteredClient.threw
    THEN Turn(filteredClient.h, out, res, "filterClient")
    ELSE Turn(filteredClient.h, Append(out, filteredClient.r), res, "none")

\* outputData.unshift(filteredClient) in place of push: breaks C11
PushFilteredFirst(out, res, filteredClient) ==
  IF filteredClient.threw
    THEN Turn(filteredClient.h, out, res, "filterClient")
    ELSE Turn(filteredClient.h, <<filteredClient.r>> \o out,
              [res EXCEPT !.successCount = @ + 1], "none")

\* outputData.push(filteredClient); results.successCount++, for the
\* completion of filterClient
PushFiltered(out, res, filteredClient) ==
  IF filteredClient.threw
    THEN Turn(filteredClient.h, out, res, "filterClient")
    ELSE Turn(filteredClient.h, Append(out, filteredClient.r),
              [res EXCEPT !.successCount = @ + 1], "none")

\* The body of for (const client of inputData) in the strict script, from
\* the result of validateClient on
afterValidateClientStrict(h, out, res, client, validation) ==
  IF validation.threw THEN Turn(h, out, res, "validateClient")
  ELSE IF validation.valid THEN PushFiltered(out, res, filterClient(h, client))
  ELSE IF Nullish(client)
    THEN Turn(h, out, [res EXCEPT !.skippedCount = @ + 1], "skippedClients")
  ELSE Turn(h, out,
            [res EXCEPT !.skippedCount = @ + 1,
                        !.skippedClients =
                           Append(@, [id |-> GetProperty(h, client, k_id),
                                      reason |-> validation.reason])],
            "none")

\* The body of for (const client of inputData) in the strict script
processClientStrict(h, out, res, client) ==
  afterValidateClientStrict(h, out, res, client, validateClientStrict(h, client))

\* A loop body that drops an invalid pregnancy without a record: breaks C2
afterValidatePregnancyUnrecorded(h, client, pregnancy, sofar, pregnancyValidation) ==
  IF pregnancyValidation.valid
    THEN [sofar EXCEPT !.validPregnancies = Append(@, pregnancy)]
    ELSE sofar

\* The body of for (const pregnancy of client.pregnancies) in the salvage
\* script, from the result of validatePregnancy on.  sofar: validPregnancies,
\* results and whether reading pregnancy.id of a null pregnancy raised a
\* TypeError.
afterValidatePregnancy(h, client, pregnancy, sofar, pregnancyValidation) ==
  IF pregnancyValidation.valid THEN
    [sofar EXCEPT !.validPregnancies = Append(@, pregnancy)]
  ELSE IF Nullish(pregnancy) THEN
    [sofar EXCEPT !.threw = TRUE,
                  !.results.skippedPregnanciesCount = @ + 1]
  ELSE
    [sofar EXCEPT
       !.results.skippedPregnanciesCount = @ + 1,
       !.results.skippedPregnancies =
          Append(@, [clientId |-> GetProperty(h, client, k_id),
                     pregnancyId |-> GetProperty(h, pregnancy, k_id),
                     reason |-> pregnancyValidation.reason])]

\* for (const pregnancy of client.pregnancies) in the salvage script, from
\* the pregnancies elems on
RECURSIVE validatePregnancies(_, _, _, _)
validatePregnancies(h, client, elems, sofar) ==
  IF Len(elems) = 0 \/ sofar.threw THEN sofar
  ELSE validatePregnancies(h, client, Tail(elems),
         afterValidatePregnancy(h, client, Head(elems), sofar,
                                validatePregnancy(h, Head(elems))))

\* The object the value of copy with pregnancies set to the value of array
SpreadWith(copy, array) ==
  Done(SetProperty(array.h, copy.r, k_pregnancies, array.r), copy.r)

\* The new array validPregnancies in the heap of the completion copy
WithArray(copy, validPregnancies) ==
  SpreadWith(copy, Alloc(copy.h, Arr(validPregnancies)))

\* client.pregnancies = validPregnancies in place of the spread: breaks C7
clientPregnanciesAssigned(h, client, validPregnancies) ==
  WithArray(Done(h, client), validPregnancies)

\* { ...client, pregnancies: validPregnancies } for an object client
clientWithValidPregnancies(h, client, validPregnancies) ==
  WithArray(Alloc(h, Obj(OwnProperties(h, client))), validPregnancies)

\* filterClient(clientWithValidPregnancies), for the completion c of the
\* spread
filterSpread(c) == filterClient(c.h, c.r)

\* A loop body without the check validPregnancies.length === 0: breaks C6
afterValidatePregnanciesKeepEmpty(h, out, client, v) ==
  IF v.threw THEN Turn(h, out, v.results, "skippedPregnancies")
  ELSE PushFiltered(out, v.results,
         filterClient(clientWithValidPregnancies(h, client, v.validPregnancies).h,
                      clientWithValidPregnancies(h, client, v.validPregnancies).r))

\* The body of for (const client of inputData) in the salvage script, after
\* the loop over the pregnancies, which left v
afterValidatePregnancies(h, out, client, v) ==
  IF v.threw THEN Turn(h, out, v.results, "skippedPregnancies")
  ELSE IF Len(v.validPregnancies) = 0 THEN
    Turn(h, out,
         [v.results EXCEPT
            !.skippedClientsCount = @ + 1,
            !.skippedClients =
               Append(@, [id |-> GetProperty(h, client, k_id),
                          reason |-> <<"No valid pregnancies remaining after validation">>])],
         "none")
  ELSE PushFiltered(out, v.results,
         filterSpread(clientWithValidPregnancies(h, client, v.validPregnancies)))

\* The body of for (const client of inputData) in the salvage script, from
\* the result of validateClient on
afterValidateClientSalvage(h, out, res, client, clientValidation) ==
  IF ~clientValidation.valid THEN
    IF Nullish(client)
      THEN Turn(h, out, [res EXCEPT !.skippedClientsCount = @ + 1],
                "skippedClients")
      ELSE Turn(h, out,
                [res EXCEPT !.skippedClientsCount = @ + 1,
                            !.skippedClients =
                               Append(@, [id |-> GetProperty(h, client, k_id),
                                          reason |-> clientValidation.reason])],
                "none")
  ELSE IF ~Iterable(h, GetProperty(h, client, k_pregnancies))
    THEN Turn(h, out, res, "pregnancies")
  ELSE afterValidatePregnancies(h, out, client,
         validatePregnancies(h, client,
           Elements(h, GetProperty(h, client, k_pregnancies)),
           [validPregnancies |-> <<>>, results |-> res, threw |-> FALSE]))

\* The body of for (const client of inputData) in the salvage script
processClientSalvage(h, out, res, client) ==
  afterValidateClientSalvage(h, out, res, client, validateClientSalvage(h, client))

----------------------------------------------------------------------------
(* The input documents of the model.  The keys below are not in any        *)
(* allow-list.                                                             *)

k_name == <<"n", "a", "m", "e">>
k_secret == <<"s", "e", "c", "r", "e", "t">>
k_kind_5_nahrung == <<"k", "i", "n", "d", "-", "5", "-", "n", "a", "h", "r", "u", "n", "g">>
k_kind_12_physiologisches_neugeborenes == <<"k", "i", "n", "d", "-", "1", "2", "-", "p", "h", "y", "s", "i", "o", "l", "o", "g", "i", "s", "c", "h", "e", "s", "-", "n", "e", "u", "g", "e", "b", "o", "r", "e", "n", "e", "s">>
k_kind_5_unknown == <<"k", "i", "n", "d", "-", "5", "-", "u", "n", "k", "n", "o", "w", "n">>
k_kind_nahrung == <<"k", "i", "n", "d", "-", "n", "a", "h", "r", "u", "n", "g">>
k_kind_12_nahrungx == <<"k", "i", "n", "d", "-", "1", "2", "-", "n", "a", "h", "r", "u", "n", "g", "x">>
k_xkind_5_nahrung == <<"x", "k", "i", "n", "d", "-", "5", "-", "n", "a", "h", "r", "u", "n", "g">>
k_kind_x_nahrung == <<"k", "i", "n", "d", "-", "x", "-", "n", "a", "h", "r", "u", "n", "g">>

Text == Str(<<"x">>)

\* A data_encr blob: two keys of the type's allow-list (the first of them
\* belongs to no other type), the dynamic keys and their near misses, and a
\* key of no list
DataEncrDoc(own, shared) ==
  Obj(<<Prop(k_secret, Text), Prop(own, Num(1)),
        Prop(k_kind_5_nahrung, Text), Prop(k_kind_5_unknown, Text),
        Prop(k_kind_nahrung, Text), Prop(k_kind_12_nahrungx, Text),
        Prop(k_xkind_5_nahrung, Text), Prop(k_kind_x_nahrung, Text),
        Prop(k_kind_12_physiologisches_neugeborenes, Bool(TRUE)),
        Prop(shared, Text), Prop(k_stillt, Bool(FALSE))>>)

ChildDoc(id) ==
  Obj(<<Prop(k_name, Text), Prop(k_id, Num(id)),
        Prop(k_data_encr, DataEncrDoc(k_birth_date, k_fields_type)),
        Prop(k_date_birth, Null)>>)

\* kind: "ok", "emptyChildren" (children: []), "nullChild" (children: [null])
BirthDoc(kind, id) ==
  Obj(<<Prop(k_children,
             CASE kind = "emptyChildren" -> Arr(<<>>)
               [] kind = "nullChild" -> Arr(<<Null>>)
               [] OTHER -> Arr(<<ChildDoc(10 * id), Num(7)>>)),
        Prop(k_secret, Text),
        Prop(k_data_encr, DataEncrDoc(k_blutverlust, k_fields_type)),
        Prop(k_id, Num(id))>>)

CareAfterDoc(id) ==
  Obj(<<Prop(k_date_start, Text), Prop(k_name, Text),
        Prop(k_data_encr, DataEncrDoc(k_child_tab, k_care_length)),
        Prop(k_id, Num(id))>>)

CareAfterPhoneDoc(id) ==
  Obj(<<Prop(k_is_breast_feeding, Bool(FALSE)), Prop(k_name, Text),
        Prop(k_data_encr, DataEncrDoc(k_secret, k_secret)),
        Prop(k_id_user, Num(id))>>)

PregnancyKinds ==
  {"ok", "noCares", "bare", "nullBirth", "falseBirth", "emptyChildren",
   "emptyPhone", "noId", "null", "nullChild"}

\* A pregnancy of each kind:
\*   ok            every required field present
\*   noCares       a birth with children, no cares_after, no cares_after_phone
\*   bare          an id and nothing else
\*   nullBirth     birth: null
\*   falseBirth    birth: false
\*   emptyChildren birth.children: []
\*   emptyPhone    cares_after_phone: []
\*   noId          as ok, without an id
\*   null          the array element is null
\*   nullChild     birth.children: [null]
PregnancyDoc(kind, id) ==
  LET cares == <<Prop(k_cares_after, Arr(<<CareAfterDoc(10 * id)>>)),
                 Prop(k_cares_after_phone,
                      IF kind = "emptyPhone" THEN Arr(<<>>)
                      ELSE Arr(<<CareAfterPhoneDoc(10 * id), Null>>))>>
      head == <<Prop(k_secret, Text),
                Prop(k_data_encr, DataEncrDoc(k_egt, k_fields_type))>>
      ident == IF kind = "noId" THEN <<>> ELSE <<Prop(k_id, Num(id))>>
      birth ==
        CASE kind = "nullBirth" -> <<Prop(k_birth, Null)>>
          [] kind = "falseBirth" -> <<Prop(k_birth, Bool(FALSE))>>
          [] kind = "emptyChildren" -> <<Prop(k_birth, BirthDoc(kind, 10 * id))>>
          [] kind = "nullChild" -> <<Prop(k_birth, BirthDoc(kind, 10 * id))>>
          [] OTHER -> <<Prop(k_birth, BirthDoc("ok", 10 * id))>>
  IN  CASE kind = "null" -> Null
        [] kind = "bare" -> Obj(ident)
        [] kind = "noCares" -> Obj(head \o birth \o ident)
        [] OTHER -> Obj(head \o cares \o birth \o ident)

\* A client that is not an object with an array of pregnancies:
\*   noPregnancies   no pregnancies key
\*   nullPregnancies pregnancies: null
\*   number          pregnancies: 5
\*   emptyString     pregnancies: ""
\*   string          pregnancies: "ab"
\*   zero            pregnancies: 0
\*   null            the array element is null
\*   primitive       the array element is 7
OddClientKinds ==
  {"noPregnancies", "nullPregnancies", "number", "emptyString", "string",
   "zero", "null", "primitive"}

OddClientDoc(kind, id) ==
  LET ident == <<Prop(k_name, Text), Prop(k_id, Num(id))>>
  IN  CASE kind = "null" -> Null
        [] kind = "primitive" -> Num(7)
        [] kind = "noPregnancies" -> Obj(ident)
        [] kind = "nullPregnancies" -> Obj(ident \o <<Prop(k_pregnancies, Null)>>)
        [] kind = "number" -> Obj(ident \o <<Prop(k_pregnancies, Num(5))>>)
        [] kind = "emptyString" -> Obj(ident \o <<Prop(k_pregnancies, Str(<<>>))>>)
        [] kind = "zero" -> Obj(ident \o <<Prop(k_pregnancies, Num(0))>>)
        [] OTHER -> Obj(ident \o <<Prop(k_pregnancies, Str(<<"a", "b">>))>>)

\* A client with the pregnancies of the given kinds, in order
ClientDoc(kinds, id) ==
  Obj(<<Prop(k_pregnancies,
             Arr([j \in 1..Len(kinds) |-> PregnancyDoc(kinds[j], 10 * id + j)])),
        Prop(k_name, Text), Prop(k_id, Num(id))>>)

SeqsUpTo(S, n) == UNION {[1..m -> S] : m \in 0..n}

\* The clients of a data set of several clients: the kinds of a client's
\* pregnancies, or the kind of an odd client
ClientShapes ==
  {<<"ok">>, <<"noCares">>, <<"nullBirth">>, <<"ok", "bare">>,
   <<"emptyChildren", "ok">>, <<>>, <<"noPregnancies">>, <<"null">>}

ShapedClientDoc(shape, id) ==
  IF Len(shape) = 1 /\ shape[1] \in OddClientKinds
    THEN OddClientDoc(shape[1], id)
    ELSE ClientDoc(shape, id)

\* The input documents: one client with up to MaxPregnancies pregnancies of
\* every kind, one client of every odd kind, up to MaxClients clients of the
\* shapes above, and two roots that are no array
InputDocs ==
     {Arr(<<ClientDoc(kinds, 1)>>) : kinds \in SeqsUpTo(PregnancyKinds, MaxPregnancies)}
  \cup {Arr(<<OddClientDoc(kind, 1)>>) : kind \in OddClientKinds}
  \cup {Arr([i \in 1..Len(shapes) |-> ShapedClientDoc(shapes[i], i)]) :
          shapes \in SeqsUpTo(ClientShapes, MaxClients)}
  \cup {Null, ClientDoc(<<"ok">>, 1)}

----------------------------------------------------------------------------
(* The run *)

NoFile == [t |-> "none"]

Init ==
  /\ variant \in {"strict", "salvage"}
  /\ pass = 1
  /\ inputFile \in InputDocs
  /\ heap = JSONparse(<<>>, inputFile).h
  /\ inputData = JSONparse(<<>>, inputFile).r
  /\ results = NewResults(variant)
  /\ outputData = <<>>
  /\ pos = 0
  /\ pc = "processData"
  /\ thrownIn = "none"
  /\ outputFile = NoFile
  /\ reportFile = NoFile

\* processData without its process.exit(1): breaks C12
CheckInputContinue ==
  /\ pc = "processData"
  /\ IF IsArray(heap, inputData)
       THEN results' = [results EXCEPT !.totalClients = Len(heap[inputData.v].v)]
       ELSE UNCHANGED results
  /\ pc' = "loop"
  /\ UNCHANGED <<variant, pass, inputFile, heap, inputData, pos, outputData,
                 thrownIn, outputFile, reportFile>>

\* processData, up to the loop: a root that is no array ends the process
\* with process.exit(1)
CheckInput ==
  /\ pc = "processData"
  /\ IF IsArray(heap, inputData)
       THEN /\ results' = [results EXCEPT !.totalClients = Len(heap[inputData.v].v)]
            /\ pc' = "loop"
       ELSE /\ pc' = "exit"
            /\ UNCHANGED results
  /\ UNCHANGED <<variant, pass, inputFile, heap, inputData, pos, outputData,
                 thrownIn, outputFile, reportFile>>

\* One turn of the loop; an uncaught TypeError ends the process
TakeTurn(turn) ==
  /\ heap' = turn.h
  /\ outputData' = turn.outputData
  /\ results' = turn.results
  /\ thrownIn' = turn.thrownIn
  /\ IF turn.thrownIn = "none"
       THEN pos' = pos + 1 /\ pc' = "loop"
       ELSE pos' = pos /\ pc' = "crashed"
  /\ UNCHANGED <<variant, pass, inputFile, inputData, outputFile, reportFile>>

ProcessClientStrict ==
  /\ pc = "loop"
  /\ variant = "strict"
  /\ pos < results.totalClients
  /\ TakeTurn(processClientStrict(heap, outputData, results,
                                  GetIndex(heap, inputData, pos)))

ProcessClientSalvage ==
  /\ pc = "loop"
  /\ variant = "salvage"
  /\ pos < results.totalClients
  /\ TakeTurn(processClientSalvage(heap, outputData, results,
                                   GetIndex(heap, inputData, pos)))

\* return { outputData, results }
Return ==
  /\ pc = "loop"
  /\ pos = results.totalClients
  /\ pc' = "writeOutput"
  /\ UNCHANGED <<variant, pass, inputFile, heap, inputData, pos, outputData,
                 results, thrownIn, outputFile, reportFile>>

\* main: fs.writeFileSync(outputPath, JSON.stringify(outputData, null, 2))
WriteOutput ==
  /\ pc = "writeOutput"
  /\ outputFile' = Arr([i \in 1..Len(outputData) |->
                          JSONstringify(heap, outputData[i])])
  /\ pc' = "writeReport"
  /\ UNCHANGED <<variant, pass, inputFile, heap, inputData, pos, outputData,
                 results, thrownIn, reportFile>>

\* main: fs.writeFileSync(resultsPath, generateResultsReport(results)); the
\* report is modelled by the results it is rendered from
WriteReport ==
  /\ pc = "writeReport"
  /\ reportFile' = results
  /\ pc' = "end"
  /\ UNCHANGED <<variant, pass, inputFile, heap, inputData, pos, outputData,
                 results, thrownIn, outputFile>>

\* The script is run again, on the output file of the run that ended
RunOnOutput ==
  /\ pc = "end"
  /\ pass < MaxPasses
  /\ pass' = pass + 1
  /\ inputFile' = outputFile
  /\ heap' = JSONparse(<<>>, outputFile).h
  /\ inputData' = JSONparse(<<>>, outputFile).r
  /\ results' = NewResults(variant)
  /\ outputData' = <<>>
  /\ pos' = 0
  /\ pc' = "processData"
  /\ outputFile' = NoFile
  /\ reportFile' = NoFile
  /\ UNCHANGED <<variant, thrownIn>>

Next ==
  \/ CheckInput
  \/ ProcessClientStrict
  \/ ProcessClientSalvage
  \/ Return
  \/ WriteOutput
  \/ WriteReport
  \/ RunOnOutput

Spec == Init /\ [][Next]_vars

----------------------------------------------------------------------------
(* Reading documents and results, for the properties below.  Every operator *)
(* is total: a field of something that is no object is undefined, the items *)
(* of something that is no array are none.                                  *)

Range(seq) == {seq[n] : n \in 1..Len(seq)}

IsObject(doc) == doc.t = "object"

Keys(doc) == IF doc.t = "object" THEN {doc.v[n].k : n \in 1..Len(doc.v)} ELSE {}

Field(doc, key) ==
  IF key \in Keys(doc)
    THEN doc.v[CHOOSE n \in 1..Len(doc.v) : doc.v[n].k = key].v
    ELSE Undefined

Items(doc) == IF doc.t = "array" THEN doc.v ELSE <<>>

\* Equality of two primitive values
Same(x, y) == x.t = y.t /\ (x.t \in {"null", "undefined"} \/ x.v = y.v)

\* Equality of two documents: same shape, same keys in the same order, same
\* values
RECURSIVE SameDoc(_, _)
SameDoc(a, b) ==
  /\ a.t = b.t
  /\ CASE a.t = "array" ->
            /\ Len(a.v) = Len(b.v)
            /\ \A n \in 1..Len(a.v) : SameDoc(a.v[n], b.v[n])
       [] a.t = "object" ->
            /\ Len(a.v) = Len(b.v)
            /\ \A n \in 1..Len(a.v) :
                 a.v[n].k = b.v[n].k /\ SameDoc(a.v[n].v, b.v[n].v)
       [] OTHER -> Same(a, b)

\* P holds of every object among the items of an array document
EachObject(doc, P(_)) ==
  \A n \in 1..Len(Items(doc)) : IsObject(Items(doc)[n]) => P(Items(doc)[n])

\* P holds of some object among the items of an array document
SomeObject(doc, P(_)) ==
  \E n \in 1..Len(Items(doc)) : IsObject(Items(doc)[n]) /\ P(Items(doc)[n])

\* processData has returned
Returned == pc \in {"writeOutput", "writeReport", "end"}

\* main has written the output file
Written == outputFile.t = "array"

\* The skipped-client counter of results
SkippedOf(res) ==
  IF variant = "strict" THEN res.skippedCount ELSE res.skippedClientsCount

\* The clients of a data set with the id cid: their positions
ClientsWithId(doc, cid) ==
  {n \in 1..Len(Items(doc)) : Same(Field(Items(doc)[n], k_id), cid)}

\* The entries of results.skippedClients for the id cid: their positions
SkippedClientEntries(cid) ==
  {n \in 1..Len(results.skippedClients) : Same(results.skippedClients[n].id, cid)}

----------------------------------------------------------------------------
(* C1 *)

C1_Counted ==
  /\ pc = "loop" => results.successCount + SkippedOf(results) = pos
  /\ Returned =>
       /\ results.successCount + SkippedOf(results) = results.totalClients
       /\ inputFile.t = "array"
       /\ results.totalClients = Len(inputFile.v)

C1_OneCounter ==
  (pc = "loop" /\ pc' = "loop") =>
     \/ /\ results'.successCount = results.successCount + 1
        /\ SkippedOf(results') = SkippedOf(results)
     \/ /\ results'.successCount = results.successCount
        /\ SkippedOf(results') = SkippedOf(results) + 1

\* C1: client conservation.  After k clients have been processed,
\* successCount plus the skipped-client counter is k; when processData has
\* returned it is totalClients, the number of input records; and every turn
\* of the loop adds one to exactly one of the two counters.
C1_ClientConservation == [](C1_Counted) /\ [][C1_OneCounter]_vars

\* A run of two clients has returned with one client kept and one skipped
C1_Witness ==
  /\ Returned
  /\ results.totalClients = 2
  /\ results.successCount = 1
  /\ SkippedOf(results) = 1

----------------------------------------------------------------------------
(* C2 *)

\* The sum of the first n numbers of ns
RECURSIVE SumTo(_, _)
SumTo(ns, n) == IF n = 0 THEN 0 ELSE ns[n] + SumTo(ns, n - 1)

\* The pregnancies with id pid of the clients with id cid, in a data set
PregnancyCount(doc, cid, pid) ==
  LET counts == [n \in 1..Len(Items(doc)) |->
                   IF n \in ClientsWithId(doc, cid)
                     THEN Cardinality(
                            ClientsWithId(Field(Items(doc)[n], k_pregnancies), pid))
                     ELSE 0]
  IN  SumTo(counts, Len(counts))

\* The entries of results.skippedPregnancies for client cid, pregnancy pid
SkippedPregnancyCount(cid, pid) ==
  Cardinality({n \in 1..Len(results.skippedPregnancies) :
                 /\ Same(results.skippedPregnancies[n].clientId, cid)
                 /\ Same(results.skippedPregnancies[n].pregnancyId, pid)})

\* C2: pregnancy conservation in salvage mode.  When the salvage script has
\* written its output, every pregnancy of every input client (a client with
\* an array of pregnancies) is either in the pregnancies of an output client
\* or in exactly one entry of skippedPregnancies with its client id and
\* pregnancy id, and never both: per client id and pregnancy id, the input
\* holds as many pregnancies as the output and skippedPregnancies together.
C2_PregnancyConservation ==
  (variant = "salvage" /\ Written) =>
    \A n \in 1..Len(Items(inputFile)) :
      LET client == Items(inputFile)[n]
          pregnancies == Items(Field(client, k_pregnancies))
      IN  \A m \in 1..Len(pregnancies) :
            LET cid == Field(client, k_id)
                pid == Field(pregnancies[m], k_id)
            IN  PregnancyCount(inputFile, cid, pid)
                  = PregnancyCount(outputFile, cid, pid)
                    + SkippedPregnancyCount(cid, pid)

\* The salvage script has written a client with one of its two pregnancies,
\* the other is in skippedPregnancies
C2_Witness ==
  /\ variant = "salvage"
  /\ Written
  /\ pass = 1
  /\ Len(Items(inputFile)) = 1
  /\ Len(Items(Field(Items(inputFile)[1], k_pregnancies))) = 2
  /\ Len(Items(outputFile)) = 1
  /\ Len(Items(Field(Items(outputFile)[1], k_pregnancies))) = 1
  /\ Len(results.skippedPregnancies) = 1

----------------------------------------------------------------------------
(* C3 *)

WhitelistedAs(type, entity) == Keys(entity) \subseteq Range(CONFIG_whitelist[type])

WhitelistedChild(child) == WhitelistedAs("child", child)

WhitelistedCareAfter(careAfter) == WhitelistedAs("careAfter", careAfter)

WhitelistedCareAfterPhone(careAfterPhone) ==
  WhitelistedAs("careAfterPhone", careAfterPhone)

WhitelistedBirth(birth) ==
  /\ WhitelistedAs("birth", birth)
  /\ EachObject(Field(birth, k_children), WhitelistedChild)

WhitelistedPregnancy(pregnancy) ==
  /\ WhitelistedAs("pregnancy", pregnancy)
  /\ IsObject(Field(pregnancy, k_birth)) =>
       WhitelistedBirth(Field(pregnancy, k_birth))
  /\ EachObject(Field(pregnancy, k_cares_after), WhitelistedCareAfter)
  /\ EachObject(Field(pregnancy, k_cares_after_phone), WhitelistedCareAfterPhone)

WhitelistedClient(client) ==
  /\ WhitelistedAs("client", client)
  /\ EachObject(Field(client, k_pregnancies), WhitelistedPregnancy)

\* C3: whitelist closure.  In the output file of either script every client,
\* every pregnancy of a client, the birth of a pregnancy, every child of a
\* birth, every care-after and every care-after-phone of a pregnancy has only
\* keys of CONFIG.whitelist for its type.
C3_WhitelistClosure == Written => EachObject(outputFile, WhitelistedClient)

HasChild(birth) == SomeObject(Field(birth, k_children), IsObject)

HasAllEntities(pregnancy) ==
  /\ IsObject(Field(pregnancy, k_birth))
  /\ HasChild(Field(pregnancy, k_birth))
  /\ SomeObject(Field(pregnancy, k_cares_after), IsObject)
  /\ SomeObject(Field(pregnancy, k_cares_after_phone), IsObject)

HasFullPregnancy(client) ==
  SomeObject(Field(client, k_pregnancies), HasAllEntities)

HasSecret(pregnancy) == k_secret \in Keys(pregnancy)

HasSecretPregnancy(client) ==
  k_name \in Keys(client) /\ SomeObject(Field(client, k_pregnancies), HasSecret)

\* An input whose client and pregnancies hold keys of no whitelist has been
\* written with a pregnancy that has a birth with a child, a care-after and
\* a care-after-phone
C3_Witness ==
  /\ Written
  /\ pass = 1
  /\ SomeObject(inputFile, HasSecretPregnancy)
  /\ SomeObject(outputFile, HasFullPregnancy)

----------------------------------------------------------------------------
(* C4 *)

KindPrefix == <<"k", "i", "n", "d", "-">>

KindSuffixes ==
  {<<"-", "n", "a", "h", "r", "u", "n", "g">>,
   <<"-", "p", "h", "y", "s", "i", "o", "l", "o", "g", "i", "s", "c", "h", "e", "s", "-", "n", "e", "u", "g", "e", "b", "o", "r", "e", "n", "e", "s">>}

\* key is, as a whole, 'kind-', one or more decimal digits, and then
\* '-nahrung' or '-physiologisches-neugeborenes'
IsKindKey(key) ==
  \E suffix \in KindSuffixes :
    LET digits == Len(key) - Len(KindPrefix) - Len(suffix)
    IN  /\ digits >= 1
        /\ SubSeq(key, 1, Len(KindPrefix)) = KindPrefix
        /\ SubSeq(key, Len(key) - Len(suffix) + 1, Len(key)) = suffix
        /\ \A n \in (Len(KindPrefix) + 1)..(Len(KindPrefix) + digits) :
             key[n] \in {"0", "1", "2", "3", "4", "5", "6", "7", "8", "9"}

\* The keys a data_encr blob of an entity of the type may keep
AllowedIn(type, key) ==
  \/ key \in Range(CONFIG_dataEncr[type])
  \/ type = "careAfter" /\ IsKindKey(key)

\* The keys of the data_encr blob of an entity
BlobKeys(entity) == Keys(Field(entity, k_data_encr))

\* The keys of type's data_encr blobs in a data set: of the blobs of all
\* its pregnancies, births, children or care-afters.  In every input of the
\* model the blobs of one type hold the same keys.
BlobKeysIn(doc, type) ==
  UNION {UNION {
    LET pregnancy == Items(Field(Items(doc)[n], k_pregnancies))[m]
        birth == Field(pregnancy, k_birth)
    IN  CASE type = "pregnancy" -> BlobKeys(pregnancy)
          [] type = "birth" -> BlobKeys(birth)
          [] type = "child" ->
               UNION {BlobKeys(Items(Field(birth, k_children))[c]) :
                        c \in 1..Len(Items(Field(birth, k_children)))}
          [] type = "careAfter" ->
               UNION {BlobKeys(Items(Field(pregnancy, k_cares_after))[c]) :
                        c \in 1..Len(Items(Field(pregnancy, k_cares_after)))}
    : m \in 1..Len(Items(Field(Items(doc)[n], k_pregnancies)))}
    : n \in 1..Len(Items(doc))}

\* The data_encr blob of an output entity of the type holds the allowed keys
\* of the input's blobs of the type, and no other key
BlobClosed(type, entity) ==
  IsObject(Field(entity, k_data_encr)) =>
    BlobKeys(entity) = {key \in BlobKeysIn(inputFile, type) : AllowedIn(type, key)}

ChildBlobClosed(child) == BlobClosed("child", child)

CareAfterBlobClosed(careAfter) == BlobClosed("careAfter", careAfter)

BirthBlobsClosed(birth) ==
  /\ BlobClosed("birth", birth)
  /\ EachObject(Field(birth, k_children), ChildBlobClosed)

PregnancyBlobsClosed(pregnancy) ==
  /\ BlobClosed("pregnancy", pregnancy)
  /\ IsObject(Field(pregnancy, k_birth)) =>
       BirthBlobsClosed(Field(pregnancy, k_birth))
  /\ EachObject(Field(pregnancy, k_cares_after), CareAfterBlobClosed)

ClientBlobsClosed(client) ==
  EachObject(Field(client, k_pregnancies), PregnancyBlobsClosed)

\* C4: data_encr closure.  In the output file a key of the data_encr blob of
\* a pregnancy, birth or child is kept iff it is in the type's list of
\* CONFIG.dataEncr; a key of a care-after's blob is kept iff it is in the
\* list or is, as a whole, 'kind-<digits>-nahrung' or
\* 'kind-<digits>-physiologisches-neugeborenes'.
C4_DataEncrClosure == Written => EachObject(outputFile, ClientBlobsClosed)

C4_CareAfterKept(careAfter) ==
  /\ {k_stillt, k_kind_5_nahrung, k_kind_12_physiologisches_neugeborenes}
       \subseteq BlobKeys(careAfter)
  /\ BlobKeys(careAfter)
      \cap {k_kind_5_unknown, k_kind_nahrung, k_kind_12_nahrungx, k_secret} = {}

C4_PregnancyKept(pregnancy) ==
  /\ k_egt \in BlobKeys(pregnancy)
  /\ k_kind_5_nahrung \notin BlobKeys(pregnancy)
  /\ SomeObject(Field(pregnancy, k_cares_after), C4_CareAfterKept)

C4_ClientKept(client) == SomeObject(Field(client, k_pregnancies), C4_PregnancyKept)

\* An input whose blobs hold 'kind-5-nahrung', 'kind-5-unknown',
\* 'kind-nahrung' and 'kind-12-nahrungx' has been written: a care-after's
\* blob keeps stillt and 'kind-5-nahrung' and drops the near misses, the
\* pregnancy's blob drops 'kind-5-nahrung'
C4_Witness ==
  /\ Written
  /\ pass = 1
  /\ {k_kind_5_nahrung, k_kind_5_unknown, k_kind_nahrung, k_kind_12_nahrungx}
       \subseteq BlobKeysIn(inputFile, "careAfter")
  /\ k_kind_5_nahrung \in BlobKeysIn(inputFile, "pregnancy")
  /\ SomeObject(outputFile, C4_ClientKept)

----------------------------------------------------------------------------
(* C5 *)

IsNonEmptyArray(doc) == doc.t = "array" /\ Len(doc.v) > 0

\* A pregnancy has a non-null birth whose children is non-empty
HasBirthWithChildren(pregnancy) ==
  /\ Field(pregnancy, k_birth).t \notin {"null", "undefined"}
  /\ IsNonEmptyArray(Field(Field(pregnancy, k_birth), k_children))

\* The pregnancies field of a client is a non-empty array and every
\* pregnancy in it has a non-null birth whose children is non-empty
StrictlyComplete(client) ==
  /\ IsNonEmptyArray(Field(client, k_pregnancies))
  /\ \A m \in 1..Len(Field(client, k_pregnancies).v) :
       HasBirthWithChildren(Field(client, k_pregnancies).v[m])

\* C5: strict whole-client policy.  When the strict script has written its
\* output, a client of the input is in the output iff its pregnancies field
\* is a non-empty array and every pregnancy in it has a non-null birth whose
\* children is non-empty; a client that is not in the output has exactly one
\* entry in skippedClients.
C5_StrictWholeClient ==
  (variant = "strict" /\ Written) =>
    \A n \in 1..Len(Items(inputFile)) :
      LET client == Items(inputFile)[n]
          cid == Field(client, k_id)
      IN  IF StrictlyComplete(client)
            THEN /\ Cardinality(ClientsWithId(outputFile, cid)) = 1
                 /\ SkippedClientEntries(cid) = {}
            ELSE /\ ClientsWithId(outputFile, cid) = {}
                 /\ Cardinality(SkippedClientEntries(cid)) = 1

----------------------------------------------------------------------------
(* C6 *)

\* The input client at position n (from 1), as the script reads it
ClientAt(n) == GetIndex(heap, inputData, n - 1)

\* The pregnancies of a client that pass validatePregnancy, in order
PassingPregnancies(client) ==
  SelectSeq(Elements(heap, GetProperty(heap, client, k_pregnancies)),
            LAMBDA pregnancy : validatePregnancy(heap, pregnancy).valid)

\* The document of filterPregnancy(pregnancy)
FilteredImage(pregnancy) ==
  JSONstringify(filterPregnancy(heap, pregnancy).h,
                filterPregnancy(heap, pregnancy).r)

\* The output client with the id cid
OutputClient(cid) ==
  Items(outputFile)[CHOOSE n \in ClientsWithId(outputFile, cid) : TRUE]

NoValidPregnancies == <<"No valid pregnancies remaining after validation">>

\* C6: salvage policy.  When the salvage script has written its output, a
\* client that passed the client-level check is in the output iff one of its
\* pregnancies passes validatePregnancy; the pregnancies of the output client
\* are the filtered passing pregnancies in their order; and a client none of
\* whose pregnancies passes is not in the output and has one entry in
\* skippedClients, with the reason 'No valid pregnancies remaining after
\* validation'.
C6_SalvagePolicy ==
  (variant = "salvage" /\ Written) =>
    \A n \in 1..Len(Items(inputFile)) :
      LET client == ClientAt(n)
          cid == Field(Items(inputFile)[n], k_id)
          passing == PassingPregnancies(client)
      IN  validateClientSalvage(heap, client).valid =>
            IF Len(passing) > 0
              THEN /\ Cardinality(ClientsWithId(outputFile, cid)) = 1
                   /\ SkippedClientEntries(cid) = {}
                   /\ SameDoc(Field(OutputClient(cid), k_pregnancies),
                              Arr([m \in 1..Len(passing) |->
                                     FilteredImage(passing[m])]))
              ELSE /\ ClientsWithId(outputFile, cid) = {}
                   /\ Cardinality(SkippedClientEntries(cid)) = 1
                   /\ \A e \in SkippedClientEntries(cid) :
                        results.skippedClients[e].reason = NoValidPregnancies

\* The salvage script has written an input of two clients: the first, whose
\* second pregnancy is invalid, with its first pregnancy only; the second,
\* whose only pregnancy is invalid, is in skippedClients
C6_Witness ==
  /\ variant = "salvage"
  /\ Written
  /\ pass = 1
  /\ Len(Items(inputFile)) = 2
  /\ Len(Items(Field(Items(inputFile)[1], k_pregnancies))) = 2
  /\ Len(Items(Field(Items(inputFile)[2], k_pregnancies))) = 1
  /\ Len(Items(outputFile)) = 1
  /\ Len(Items(Field(Items(outputFile)[1], k_pregnancies))) = 1
  /\ Len(results.skippedClients) = 1
  /\ results.skippedClients[1].reason = NoValidPregnancies

----------------------------------------------------------------------------
(* C7 *)

\* C7: input immutability.  At every point of a run of either script, the
\* data set the script holds in inputData is the data set that was read: no
\* object or array of it has been changed.
C7_InputImmutable == SameDoc(JSONstringify(heap, inputData), inputFile)

\* The salvage script has returned after it removed an invalid pregnancy of
\* a client it kept: it made new objects, and the client's pregnancies in
\* inputData are still the two of the input
C7_Witness ==
  /\ variant = "salvage"
  /\ Returned
  /\ Len(outputData) = 1
  /\ Len(results.skippedPregnancies) = 1
  /\ Len(heap) > Len(JSONparse(<<>>, inputFile).h)
  /\ Len(Elements(heap, GetProperty(heap, ClientAt(1), k_pregnancies))) = 2

----------------------------------------------------------------------------
(* C8 *)

\* C8: idempotence.  A run of either script on the output file of a run of
\* the same script is not aborted, skips no client and no pregnancy, and
\* writes an output file that is identical to its input file.
C8_Idempotent ==
  pass >= 2 =>
    /\ pc \notin {"crashed", "exit"}
    /\ SkippedOf(results) = 0
    /\ Len(results.skippedClients) = 0
    /\ variant = "salvage" =>
         /\ results.skippedPregnanciesCount = 0
         /\ Len(results.skippedPregnancies) = 0
    /\ Written => SameDoc(outputFile, inputFile)

\* The second run has written a data set of a client with a complete
\* pregnancy; the first run's input held keys of no whitelist
C8_Witness ==
  /\ pass = 2
  /\ Written
  /\ pc = "end"
  /\ SomeObject(outputFile, HasFullPregnancy)
  /\ ~SomeObject(inputFile, HasSecretPregnancy)

----------------------------------------------------------------------------
(* C9 *)

\* C9: validation never throws and never aborts the run.  For an array
\* input, the validation of a client and of its pregnancies and the
\* recording of a skip entry raise nothing; a client or pregnancy that
\* fails, a null one included, gives one skip entry, and the loop goes on.
C9_ValidationNeverThrows ==
  inputFile.t = "array" =>
    thrownIn \notin {"validateClient", "skippedClients", "pregnancies",
                     "skippedPregnancies"}

----------------------------------------------------------------------------
(* C10 *)

\* The pregnancies of the input client at position n, as the script reads
\* them
PregnanciesAt(n) == GetProperty(heap, ClientAt(n), k_pregnancies)

\* Pregnancy i (from 0) of an array of pregnancies passes the checks of the
\* strict script's validateClient
PassesStrict(pregnancies, i) ==
  /\ ~validatePregnancyAt(heap, pregnancies, i).threw
  /\ validatePregnancyAt(heap, pregnancies, i).valid

\* A pregnancy has cares_after and cares_after_phone, neither of them null or
\* an empty array
HasCares(pregnancy) ==
  /\ isValidValue(heap, OptionalGet(heap, pregnancy, k_cares_after), TRUE)
  /\ isValidValue(heap, OptionalGet(heap, pregnancy, k_cares_after_phone), TRUE)

\* The input clients with an array of pregnancies: their positions
ClientsWithPregnancies ==
  {n \in 1..Len(Items(inputFile)) :
     IsObject(Items(inputFile)[n])
       /\ Field(Items(inputFile)[n], k_pregnancies).t = "array"}

\* C10 as stated: every pregnancy of the input that passes the strict
\* script's per-pregnancy checks passes the salvage script's
\* validatePregnancy.
C10_Monotone ==
  \A n \in ClientsWithPregnancies :
    \A i \in 0..(Len(Elements(heap, PregnanciesAt(n))) - 1) :
      PassesStrict(PregnanciesAt(n), i) =>
        validatePregnancy(heap, GetIndex(heap, PregnanciesAt(n), i)).valid

\* The output client for the input client at position n holds as many
\* pregnancies as the input client
KeptWhole(n) ==
  LET cid == Field(Items(inputFile)[n], k_id)
  IN  /\ Cardinality(ClientsWithId(outputFile, cid)) = 1
      /\ Len(Items(Field(OutputClient(cid), k_pregnancies)))
           = Len(Items(Field(Items(inputFile)[n], k_pregnancies)))

\* C10, amended: a pregnancy of the input passes the salvage script's
\* validatePregnancy iff it passes the strict script's per-pregnancy checks
\* and has cares_after and cares_after_phone, neither null nor an empty
\* array; and when the salvage script has written its output, every client
\* that the strict script's validateClient accepts and whose pregnancies all
\* have their cares is in the output with all its pregnancies.
C10_MonotoneWithCares ==
  \A n \in ClientsWithPregnancies :
    /\ \A i \in 0..(Len(Elements(heap, PregnanciesAt(n))) - 1) :
         validatePregnancy(heap, GetIndex(heap, PregnanciesAt(n), i)).valid
           <=> /\ PassesStrict(PregnanciesAt(n), i)
               /\ HasCares(GetIndex(heap, PregnanciesAt(n), i))
    /\ ( /\ variant = "salvage"
         /\ Written
         /\ ~validateClientStrict(heap, ClientAt(n)).threw
         /\ validateClientStrict(heap, ClientAt(n)).valid
         /\ \A i \in 0..(Len(Elements(heap, PregnanciesAt(n))) - 1) :
              HasCares(GetIndex(heap, PregnanciesAt(n), i)) )
       => KeptWhole(n)

\* The salvage script has kept a client with both its pregnancies, which
\* pass the strict checks and have their cares
C10_Witness ==
  /\ variant = "salvage"
  /\ pass = 1
  /\ ClientsWithPregnancies = {1}
  /\ Len(Elements(heap, PregnanciesAt(1))) = 2
  /\ \A i \in 0..1 :
       PassesStrict(PregnanciesAt(1), i)
         /\ HasCares(GetIndex(heap, PregnanciesAt(1), i))
  /\ Len(outputData) = 1
  /\ Len(results.skippedPregnancies) = 0
  /\ Written
  /\ KeptWhole(1)

----------------------------------------------------------------------------
(* C11 *)

\* The places in the input of the clients with the id cid
PlacesOf(cid) == ClientsWithId(inputFile, cid)

\* The places, in the pregnancies of the input client at place n, of the
\* pregnancies with the id pid
PregnancyPlacesOf(n, pid) ==
  ClientsWithId(Field(Items(inputFile)[n], k_pregnancies), pid)

\* The ids of a sequence are those of input clients the loop has taken, at
\* places that grow along the sequence
InInputOrder(ids) ==
  /\ \A a \in 1..Len(ids) : \E n \in PlacesOf(ids[a]) : n <= pos + 1
  /\ \A a, b \in 1..Len(ids) :
       a < b => \A n \in PlacesOf(ids[a]) : \A m \in PlacesOf(ids[b]) : n < m

\* Entry a of skippedPregnancies is for a record met before that of entry b
SkippedPregnancyBefore(a, b) ==
  \A n \in PlacesOf(results.skippedPregnancies[a].clientId) :
    \A m \in PlacesOf(results.skippedPregnancies[b].clientId) :
      \/ n < m
      \/ /\ n = m
         /\ Field(Items(inputFile)[n], k_pregnancies).t = "array" =>
              \E i \in PregnancyPlacesOf(n, results.skippedPregnancies[a].pregnancyId) :
                \E j \in PregnancyPlacesOf(n, results.skippedPregnancies[b].pregnancyId) :
                  i < j

\* C11: order preservation.  At every point of a run on an array, the
\* clients in outputData are input clients in their input order, and so are
\* the clients of the entries of skippedClients; the entries of
\* skippedPregnancies are in the order of their clients and, within a
\* client, of its pregnancies; and once processData has returned every
\* input client is in exactly one of outputData and skippedClients.
C11_OrderPreserved ==
  inputFile.t = "array" =>
    /\ InInputOrder([a \in 1..Len(outputData) |->
                       GetProperty(heap, outputData[a], k_id)])
    /\ InInputOrder([a \in 1..Len(results.skippedClients) |->
                       results.skippedClients[a].id])
    /\ variant = "salvage" =>
         \A a, b \in 1..Len(results.skippedPregnancies) :
           a < b => SkippedPregnancyBefore(a, b)
    /\ Returned =>
         \A n \in 1..Len(Items(inputFile)) :
           LET cid == Field(Items(inputFile)[n], k_id)
           IN  Cardinality({a \in 1..Len(outputData) :
                              Same(GetProperty(heap, outputData[a], k_id), cid)})
                 + Cardinality(SkippedClientEntries(cid)) = 1

\* The salvage script has returned with both clients of the input in the
\* output and with an invalid pregnancy of each in skippedPregnancies
C11_Witness ==
  /\ variant = "salvage"
  /\ Returned
  /\ pass = 1
  /\ Len(Items(inputFile)) = 2
  /\ Len(outputData) = 2
  /\ Len(results.skippedPregnancies) = 2

----------------------------------------------------------------------------
(* C12 *)

\* C12: fail-fast on a non-sequence root.  When the top-level input is not
\* an array the run is either about to check it or has ended with
\* process.exit(1): the loop has taken no client, outputData and both skip
\* lists are empty, every counter is 0, and neither the output file nor the
\* report has been written.
C12_FailFast ==
  inputFile.t # "array" =>
    /\ pc \in {"processData", "exit"}
    /\ pos = 0
    /\ thrownIn = "none"
    /\ outputData = <<>>
    /\ results = NewResults(variant)
    /\ outputFile = NoFile
    /\ reportFile = NoFile

\* The run on a single client object in place of an array of clients has
\* ended with exit status 1
C12_Witness ==
  /\ inputFile.t = "object"
  /\ pc = "exit"

----------------------------------------------------------------------------
(* C13 *)

\* The entities validateEntity may be given: every object and array of the
\* heap, null, undefined and primitive values
Entities ==
  {Ref(a) : a \in DOMAIN heap}
    \cup {Null, Undefined, Num(0), Num(7), Str(<<>>), Bool(FALSE)}

\* The lists of required fields of both scripts
RequiredFieldLists ==
  UNION {{CONFIG_required(var).client, CONFIG_required(var).pregnancy,
          CONFIG_required(var).birth} : var \in {"strict", "salvage"}}

\* The entity is an object (no array) with a property field
HasOwn(entity, field) ==
  /\ entity.t = "ref"
  /\ heap[entity.v].t = "object"
  /\ \E i \in 1..Len(heap[entity.v].v) : heap[entity.v].v[i].k = field

\* The value of the entity's property field
Own(entity, field) ==
  heap[entity.v].v[CHOOSE i \in 1..Len(heap[entity.v].v) :
                     heap[entity.v].v[i].k = field].v

\* The field is absent or null or, when the check is on, an empty array
Lacks(entity, field, checkArrayNonEmpty) ==
  \/ ~HasOwn(entity, field)
  \/ Own(entity, field).t \in {"null", "undefined"}
  \/ /\ checkArrayNonEmpty
     /\ Own(entity, field).t = "ref"
     /\ heap[Own(entity, field).v] = Arr(<<>>)

\* What validateEntity returns agrees with the first-failure rule
FirstFailure(entity, requiredFields, checkArrayNonEmpty) ==
  LET validation ==
        validateEntity(heap, entity, requiredFields, checkArrayNonEmpty)
  IN  IF \A i \in 1..Len(requiredFields) :
             ~Lacks(entity, requiredFields[i], checkArrayNonEmpty)
        THEN validation = [valid |-> TRUE, missingField |-> Null]
        ELSE /\ ~validation.valid
             /\ \E i \in 1..Len(requiredFields) :
                  /\ validation.missingField = Str(requiredFields[i])
                  /\ Lacks(entity, requiredFields[i], checkArrayNonEmpty)
                  /\ \A j \in 1..(i - 1) :
                       ~Lacks(entity, requiredFields[j], checkArrayNonEmpty)

\* A property of the entity with a value that is falsy and yet present
FalsyFields(entity) ==
  {i \in 1..Len(heap[entity.v].v) :
     heap[entity.v].v[i].v \in {Str(<<>>), Num(0), Bool(FALSE)}}

\* C13: the first-failure rule of validateEntity.  For every entity, every
\* list of required fields of CONFIG and both values of checkArrayNonEmpty,
\* validateEntity returns valid with missingField null iff no required
\* field is absent, null or (with checkArrayNonEmpty) an empty array, and
\* otherwise invalid with the first such field of the list; a null or
\* undefined entity lacks every field; an empty string, 0 and false are
\* present.  Checked on the heap before the loop of processData and after
\* it, where the heap holds the input and the filtered entities.
C13_FirstFailure ==
  pc \in {"processData", "writeOutput", "crashed"} =>
    /\ \A entity \in Entities : \A requiredFields \in RequiredFieldLists :
         \A checkArrayNonEmpty \in BOOLEAN :
           FirstFailure(entity, requiredFields, checkArrayNonEmpty)
    /\ \A entity \in {Null, Undefined} : \A requiredFields \in RequiredFieldLists :
         \A checkArrayNonEmpty \in BOOLEAN :
           validateEntity(heap, entity, requiredFields, checkArrayNonEmpty)
             = [valid |-> FALSE, missingField |-> Str(requiredFields[1])]
    /\ \A a \in DOMAIN heap :
         heap[a].t = "object" =>
           \A i \in FalsyFields(Ref(a)) : \A checkArrayNonEmpty \in BOOLEAN :
             validateEntity(heap, Ref(a), <<heap[a].v[i].k>>, checkArrayNonEmpty).valid

\* The salvage script has skipped a pregnancy that lacks both birth and
\* cares_after, and the reason it recorded names birth
C13_Witness ==
  /\ variant = "salvage"
  /\ Returned
  /\ \E a \in DOMAIN heap :
       /\ heap[a].t = "object"
       /\ Lacks(Ref(a), k_birth, TRUE)
       /\ Lacks(Ref(a), k_cares_after, TRUE)
       /\ \E e \in 1..Len(results.skippedPregnancies) :
            /\ Same(results.skippedPregnancies[e].pregnancyId,
                    GetProperty(heap, Ref(a), k_id))
            /\ results.skippedPregnancies[e].reason[2] = Str(k_birth)

----------------------------------------------------------------------------
(* C14 *)

\* A retained pregnancy has a birth object whose children is a non-empty
\* array and, in the salvage script, non-empty arrays cares_after and
\* cares_after_phone
CompletePregnancy(pregnancy) ==
  /\ Field(pregnancy, k_birth).t = "object"
  /\ IsNonEmptyArray(Field(Field(pregnancy, k_birth), k_children))
  /\ variant = "salvage" =>
       /\ IsNonEmptyArray(Field(pregnancy, k_cares_after))
       /\ IsNonEmptyArray(Field(pregnancy, k_cares_after_phone))

\* A retained client has a non-empty array of complete pregnancies
CompleteClient(client) ==
  /\ IsNonEmptyArray(Field(client, k_pregnancies))
  /\ \A m \in 1..Len(Field(client, k_pregnancies).v) :
       CompletePregnancy(Field(client, k_pregnancies).v[m])

\* C14: structural completeness of the output.  In every output data set
\* written, every client has a non-empty pregnancies array and every
\* pregnancy in it has a birth object whose children is a non-empty array
\* and, in the salvage script, non-empty cares_after and cares_after_phone.
C14_OutputComplete ==
  Written => \A n \in 1..Len(outputFile.v) : CompleteClient(outputFile.v[n])

----------------------------------------------------------------------------
(* C15 *)

\* The number of input clients the loop of processData has taken, the one
\* it was at when a TypeError ended the run included
Taken == IF pc = "crashed" THEN pos + 1 ELSE pos

\* The entries of results.skippedPregnancies for the client id cid
SkippedPregnancyEntries(cid) ==
  {n \in 1..Len(results.skippedPregnancies) :
     Same(results.skippedPregnancies[n].clientId, cid)}

\* The counters of results equal the lengths of their lists
CountersAgree ==
  /\ results.successCount = Len(outputData)
  /\ SkippedOf(results) = Len(results.skippedClients)
  /\ variant = "salvage" =>
       results.skippedPregnanciesCount = Len(results.skippedPregnancies)

\* What the client at place n has added to the lists of the salvage script:
\* one skippedClients entry and no skippedPregnancies entry if it fails the
\* client-level check; one skippedPregnancies entry for each pregnancy and
\* one skippedClients entry if all its pregnancies fail
Contributed(n) ==
  LET client == ClientAt(n)
      cid == GetProperty(heap, client, k_id)
      pregnancies == GetProperty(heap, client, k_pregnancies)
  IN  IF ~validateClientSalvage(heap, client).valid
        THEN /\ Cardinality(SkippedClientEntries(cid)) = 1
             /\ SkippedPregnancyEntries(cid) = {}
        ELSE (Iterable(heap, pregnancies) /\ PassingPregnancies(client) = <<>>) =>
               /\ Cardinality(SkippedPregnancyEntries(cid))
                    = Len(Elements(heap, pregnancies))
               /\ Cardinality(SkippedClientEntries(cid)) = 1

\* C15: statistics agree with their lists.  At every point of a run,
\* successCount is the length of outputData, the skipped-client counter the
\* length of skippedClients and, in the salvage script,
\* skippedPregnanciesCount the length of skippedPregnancies; in the salvage
\* script every client taken that fails the client-level check has one
\* skippedClients entry and no skippedPregnancies entry, and every client
\* taken all of whose pregnancies fail has one skippedPregnancies entry for
\* each pregnancy and one skippedClients entry.
C15_StatisticsAgree ==
  /\ CountersAgree
  /\ (variant = "salvage" /\ inputFile.t = "array") =>
       \A n \in 1..Taken : Contributed(n)

=============================================================================
